---- MODULE Spec2Model ----
(***************************************************************************)
(* A model of CythonCRUD-HPC:                                              *)
(*   - HPCConnectionPool   (core/compression.pyx, lines 124-213)           *)
(*   - CythonCRUDEngine    (core/crud_engine.pyx)                          *)
(*   - the cached read of the README (execute_cached_read)                 *)
(*   - AdaptiveCompressor  (core/compression.pyx, lines 12-111)            *)
(*   - the sqlite3 store the two talk to, as far as the code uses it:      *)
(*     one write transaction at a time, uncommitted changes visible only   *)
(*     on the connection that made them, commit, and the rollback that     *)
(*     closing a connection implies.                                       *)
(*                                                                         *)
(* Reading of the source.  The files do not compile as they stand (line 94 *)
(* of crud_engine.pyx spells str as srt, line 82 spells _connections_pool  *)
(* as _connection_pool, line 124 closes a bracket one token early).  Such  *)
(* misspellings are read as the name or bracket they stand for.  What the  *)
(* code does with its state is modelled as written: the capacity test of   *)
(* get_connection, the wait loop inside the lock, the missing rollback,    *)
(* the return inside the row loop of read_optimized, the cache that no     *)
(* write touches.                                                          *)
(***************************************************************************)
EXTENDS Integers, Sequences, FiniteSets, TLC

\* ------------------------------------------------------------------ bounds
MaxThreads == 2      \* threads calling into the pool / the engine
MaxPoolSize == 2     \* max_size and max_connections range over 0..MaxPoolSize
MaxConns == 3        \* connection objects each component may create
MaxRecords == 3      \* longest record list given to create_bulk
MaxId == 3           \* AUTOINCREMENT ids the table may hand out
MaxSamples == 2      \* longest sample list given to train_compression
_batch_size == 2     \* records per batch: 10000 in __init__, scaled to the record lists

\* --------------------------------------------------------- program constants
InitialConnections == 10   \* _initialize_pool: "Start with 10 connections"

Threads == 1..MaxThreads
NoThread == 0
NoConn == 0

VARIABLES
    \* HPCConnectionPool
    _connections,    \* list of idle connections
    _max_size,
    _lock,           \* the thread inside "with self._lock", or NoThread
    pool_created,    \* connection objects made by _create_connection: 1..pool_created
    pool_closed,     \* connection objects on which close() was called
    pool_pc,         \* where each thread is in its call to the pool
    pool_conn,       \* the connection each thread got from get_connection
    \* CythonCRUDEngine
    _connections_pool,  \* list of idle connections
    max_connections,
    _query_cache,    \* fingerprint -> stored result set
    eng_created,     \* connection objects made by sqlite3.connect: 1..eng_created
    eng_closed,      \* connection objects that are closed
    pc,              \* where each thread is in its call to the engine
    conn,            \* local conn
    todo,            \* create_bulk: the records not yet inserted
    query,           \* create_bulk: placeholders of the batch's INSERT (from batch[0])
    inb,             \* create_bulk: records of the current batch already inserted
    inserted_ids,    \* create_bulk: local inserted_ids
    arg,             \* update/delete: the id bound to the where clause
    close_i,         \* close: position of the list iterator
    ret,             \* the value (or error) the call is about to return
    \* the sqlite3 database file
    db,              \* the committed content
    writer,          \* the connection holding the write transaction, or NoConn
    work,            \* the content as that connection sees it (db when there is none)
    \* AdaptiveCompressor
    _string_dict,    \* str -> the value stored for it
    _dict_size,
    _enabled,
    call,            \* the last call to the compressor: its name and argument
    out,             \* what that call returned or raised
    cpc,             \* the statement of the compressor each thread is at
    cstr,            \* the string each thread is about to insert
    cnum,            \* the number each thread has read: len(self._string_dict) or self._dict_size
    \* history
    stale            \* fingerprints stored in the cache before a write that has since succeeded

pool_vars == <<_connections, _max_size, _lock, pool_created, pool_closed,
               pool_pc, pool_conn>>

eng_vars == <<_connections_pool, max_connections, _query_cache, eng_created,
              eng_closed, pc, conn, todo, query, inb, inserted_ids, arg,
              close_i, ret, db, writer, work, stale>>

race_vars == <<cpc, cstr, cnum>>

comp_vars == <<_string_dict, _dict_size, _enabled, call, out, race_vars>>

vars == <<pool_vars, eng_vars, comp_vars>>

Range(s) == {s[i] : i \in DOMAIN s}

Min(a, b) == IF a < b THEN a ELSE b

\* list.pop(): the last element, and the list without it
PopValue(s) == s[Len(s)]
PopRest(s) == SubSeq(s, 1, Len(s) - 1)

\* ------------------------------------------------------- HPCConnectionPool

\* __init__ with _initialize_pool: min(10, max_size) connections are made
PoolInit ==
    /\ _max_size \in 0..MaxPoolSize
    /\ pool_created = Min(InitialConnections, _max_size)
    /\ _connections = [i \in 1..pool_created |-> i]
    /\ _lock = NoThread
    /\ pool_closed = {}
    /\ pool_pc = [t \in Threads |-> "idle"]
    /\ pool_conn = [t \in Threads |-> NoConn]

\* the second test of get_connection, reached with an empty list
HasCapacity == Len(_connections) < _max_size

\* a thread calls get_connection and comes to "with self._lock"
AcquireCall(t) ==
    /\ pool_pc[t] = "idle"
    /\ pool_pc' = [pool_pc EXCEPT ![t] = "acquiring"]
    /\ UNCHANGED <<eng_vars, comp_vars, _connections, _max_size, _lock, pool_created, pool_closed, pool_conn>>

\* the body of get_connection under the lock; the two returning branches
\* leave the with block in the same step, the third stays inside it
GetConnection(t) ==
    /\ pool_pc[t] = "acquiring"
    /\ _lock = NoThread
    /\ IF _connections # <<>>
         THEN /\ pool_conn' = [pool_conn EXCEPT ![t] = PopValue(_connections)]
              /\ _connections' = PopRest(_connections)
              /\ pool_pc' = [pool_pc EXCEPT ![t] = "holding"]
              /\ UNCHANGED <<_lock, pool_created>>
         ELSE IF HasCapacity
         THEN /\ pool_created < MaxConns
              /\ pool_created' = pool_created + 1
              /\ pool_conn' = [pool_conn EXCEPT ![t] = pool_created + 1]
              /\ pool_pc' = [pool_pc EXCEPT ![t] = "holding"]
              /\ UNCHANGED <<_lock, _connections>>
         ELSE /\ _lock' = t
              /\ pool_pc' = [pool_pc EXCEPT ![t] = "waiting"]
              /\ UNCHANGED <<_connections, pool_created, pool_conn>>
    /\ UNCHANGED <<eng_vars, comp_vars, _max_size, pool_closed>>

\* one turn of "while not self._connections: pass", the lock still held
WaitLoop(t) ==
    /\ pool_pc[t] = "waiting"
    /\ IF _connections # <<>>
         THEN /\ pool_conn' = [pool_conn EXCEPT ![t] = PopValue(_connections)]
              /\ _connections' = PopRest(_connections)
              /\ pool_pc' = [pool_pc EXCEPT ![t] = "holding"]
              /\ _lock' = NoThread
         ELSE UNCHANGED <<_connections, _lock, pool_pc, pool_conn>>
    /\ UNCHANGED <<eng_vars, comp_vars, _max_size, pool_created, pool_closed>>

\* a test that would let the list grow to max_size + 1
PoolHasRoomLoose == Len(_connections) <= _max_size

\* the test of release_connection
PoolHasRoom == Len(_connections) < _max_size

\* a release that stores the connection without the test
ReleaseAlwaysStores(t) ==
    /\ pool_pc[t] = "holding"
    /\ _lock = NoThread
    /\ _connections' = Append(_connections, pool_conn[t])
    /\ pool_pc' = [pool_pc EXCEPT ![t] = "idle"]
    /\ pool_conn' = [pool_conn EXCEPT ![t] = NoConn]
    /\ UNCHANGED <<eng_vars, comp_vars, _max_size, _lock, pool_created, pool_closed>>

ReleaseConnection(t) ==
    /\ pool_pc[t] = "holding"
    /\ _lock = NoThread
    /\ IF PoolHasRoom
         THEN /\ _connections' = Append(_connections, pool_conn[t])
              /\ UNCHANGED pool_closed
         ELSE /\ pool_closed' = pool_closed \cup {pool_conn[t]}
              /\ UNCHANGED _connections
    /\ pool_pc' = [pool_pc EXCEPT ![t] = "idle"]
    /\ pool_conn' = [pool_conn EXCEPT ![t] = NoConn]
    /\ UNCHANGED <<eng_vars, comp_vars, _max_size, _lock, pool_created>>

\* close_all: every listed connection is closed and the list cleared; the
\* thread that shut the pool down makes no further call ("shut")
CloseAll(t) ==
    /\ pool_pc[t] = "idle"
    /\ _lock = NoThread
    /\ pool_closed' = pool_closed \cup Range(_connections)
    /\ _connections' = <<>>
    /\ pool_pc' = [pool_pc EXCEPT ![t] = "shut"]
    /\ UNCHANGED <<eng_vars, comp_vars, _max_size, _lock, pool_created, pool_conn>>

PoolNext ==
    \E t \in Threads :
        \/ AcquireCall(t)
        \/ GetConnection(t)
        \/ WaitLoop(t)
        \/ ReleaseConnection(t)
        \/ CloseAll(t)

\* ------------------------------------------------------------ sqlite3 store

\* The one table the model writes ("users").  schema is the number of
\* columns it was created with (0: the table does not exist), seq the
\* AUTOINCREMENT counter, rows the rows as {id, vals}.
EmptyStore == [schema |-> 0, seq |-> 0, rows |-> {}]

\* what a statement on connection c sees: its own uncommitted changes
View(c) == IF writer = c THEN work ELSE db

\* another connection holds the write transaction: "database is locked"
Locked(c) == writer # NoConn /\ writer # c

\* the rowid of a table made without AUTOINCREMENT: one more than the
\* largest rowid in the table
RowIdAfterLargest(st) ==
    IF st.rows = {} THEN 1
    ELSE (CHOOSE i \in {r.id : r \in st.rows} : \A r \in st.rows : r.id <= i) + 1

\* INSERT of one record: the next AUTOINCREMENT id, cursor.lastrowid
LastRowId(st) == st.seq + 1
InsertRow(st, rec) ==
    [st EXCEPT !.rows = @ \cup {[id |-> LastRowId(st), vals |-> rec]},
               !.seq = LastRowId(st)]

\* UPDATE users SET name=? WHERE id = ? ; cursor.rowcount
Matching(st, k) == {r \in st.rows : r.id = k}
UpdateRows(st, k, v) ==
    [st EXCEPT !.rows = {IF r.id = k THEN [r EXCEPT !.vals[1] = v] ELSE r : r \in @}]

\* DELETE FROM users WHERE id = ?
DeleteRows(st, k) == [st EXCEPT !.rows = @ \ Matching(st, k)]

\* SELECT * FROM users: the rows in rowid order
RECURSIVE RowsFrom(_)
RowsFrom(rows) ==
    IF rows = {} THEN <<>>
    ELSE LET r == CHOOSE x \in rows : \A y \in rows : x.id <= y.id
         IN  <<r>> \o RowsFrom(rows \ {r})
SelectAll(st) == RowsFrom(st.rows)

\* -------------------------------------------------------- CythonCRUDEngine

\* values a call may return
Pending == [kind |-> "pending", val |-> <<>>]
Error == [kind |-> "error", val |-> <<>>]
Ids(ids) == [kind |-> "ids", val |-> ids]
Rows(rows) == [kind |-> "rows", val |-> rows]
NoneValue == [kind |-> "none", val |-> <<>>]
Count(n) == [kind |-> "count", val |-> n]

\* the records create_bulk is called with, each as tuple(record.values()):
\* {"name": "a"}, and a record of another shape, {"name": "a", "age": "b"}.
\* A list starts with a record of the first shape, from which the table
\* ("name") is made; a record of the other shape later in a batch does not
\* fit the batch's INSERT.
NameRecord == <<"a">>
RecordSet == {NameRecord, <<"a", "b">>}
RECURSIVE SeqsUpTo(_)
SeqsUpTo(n) ==
    IF n = 0 THEN {<<>>}
    ELSE LET shorter == SeqsUpTo(n - 1)
         IN  shorter \cup {Append(s, r) : s \in {x \in shorter : Len(x) = n - 1},
                                         r \in RecordSet}
RecordLists == {s \in SeqsUpTo(MaxRecords) : s = <<>> \/ Head(s) = NameRecord}

\* the lists whose records all have the table's shape
NameRecordLists == {s \in RecordLists : \A i \in DOMAIN s : s[i] = NameRecord}

\* the one query the reads run, and its fingerprint (no parameters)
SelectUsers == "SELECT * FROM users"

\* _init_connection_pool is called by __init__ but is not in the source:
\* it is taken to make the list with n connections in it, for any n up to
\* max_connections
InitConnectionPool(n) == [i \in 1..n |-> i]

\* __init__: after _init_connection_pool, _enable_wal_mode takes a
\* connection (the last of the list or, the list being empty, a new one),
\* sets the PRAGMAs and releases it
EngineInit ==
    /\ max_connections \in 0..MaxPoolSize
    /\ \E n \in 0..max_connections :
         LET made == InitConnectionPool(n)
         IN  IF made # <<>>
               THEN /\ _connections_pool = Append(PopRest(made), PopValue(made))
                    /\ eng_created = n
                    /\ eng_closed = {}
               ELSE /\ eng_created = 1
                    /\ _connections_pool = IF Len(made) < max_connections
                                             THEN Append(made, 1) ELSE made
                    /\ eng_closed = IF Len(made) < max_connections THEN {} ELSE {1}
    /\ _query_cache = [k \in {} |-> <<>>]
    /\ pc = [t \in Threads |-> "idle"]
    /\ conn = [t \in Threads |-> NoConn]
    /\ todo = [t \in Threads |-> <<>>]
    /\ query = [t \in Threads |-> 0]
    /\ inb = [t \in Threads |-> 0]
    /\ inserted_ids = [t \in Threads |-> <<>>]
    /\ arg = [t \in Threads |-> 0]
    /\ close_i = [t \in Threads |-> 0]
    /\ ret = [t \in Threads |-> Pending]
    /\ db = EmptyStore
    /\ writer = NoConn
    /\ work = EmptyStore
    /\ stale = {}

\* closing a connection (conn.close(), or the last reference to it going
\* away) ends its open transaction without committing it
CloseConns(cs) ==
    /\ eng_closed' = eng_closed \cup cs
    /\ IF writer \in cs
         THEN writer' = NoConn /\ work' = db
         ELSE UNCHANGED <<writer, work>>

\* _get_connection: pop an idle connection, else connect
EngineGet(t) ==
    IF _connections_pool # <<>>
      THEN /\ conn' = [conn EXCEPT ![t] = PopValue(_connections_pool)]
           /\ _connections_pool' = PopRest(_connections_pool)
           /\ UNCHANGED eng_created
      ELSE /\ eng_created < MaxConns
           /\ eng_created' = eng_created + 1
           /\ conn' = [conn EXCEPT ![t] = eng_created + 1]
           /\ UNCHANGED _connections_pool

\* the test of _release_connection
EngineHasRoom == Len(_connections_pool) < max_connections

\* _release_connection
EngineRelease(c) ==
    IF EngineHasRoom
      THEN /\ _connections_pool' = Append(_connections_pool, c)
           /\ UNCHANGED <<eng_closed, writer, work>>
      ELSE /\ CloseConns({c})
           /\ UNCHANGED _connections_pool

\* the locals of a call, dead once it leaves its try block
locals == <<todo, query, inb, inserted_ids, arg>>

ClearLocals(t) ==
    /\ todo' = [todo EXCEPT ![t] = <<>>]
    /\ query' = [query EXCEPT ![t] = 0]
    /\ inb' = [inb EXCEPT ![t] = 0]
    /\ inserted_ids' = [inserted_ids EXCEPT ![t] = <<>>]
    /\ arg' = [arg EXCEPT ![t] = 0]

\* a release that follows the try block instead of sitting in a finally
\* block: a call that raised returns without it
ReleaseAfterTry(t) ==
    /\ pc[t] = "release"
    /\ IF ret[t] = Error
         THEN UNCHANGED <<_connections_pool, eng_closed, writer, work>>
         ELSE EngineRelease(conn[t])
    /\ pc' = [pc EXCEPT ![t] = "idle"]
    /\ conn' = [conn EXCEPT ![t] = NoConn]
    /\ ret' = [ret EXCEPT ![t] = Pending]
    /\ UNCHANGED <<pool_vars, comp_vars, locals, max_connections, _query_cache, eng_created,
                   close_i, db, stale>>

\* the finally block of every operation, and the return that follows it
Release(t) ==
    /\ pc[t] = "release"
    /\ EngineRelease(conn[t])
    /\ pc' = [pc EXCEPT ![t] = "idle"]
    /\ conn' = [conn EXCEPT ![t] = NoConn]
    /\ ret' = [ret EXCEPT ![t] = Pending]
    /\ UNCHANGED <<pool_vars, comp_vars, locals, max_connections, _query_cache, eng_created,
                   close_i, db, stale>>

\* an exception leaves the try block for the finally block
Raise(t) ==
    /\ pc' = [pc EXCEPT ![t] = "release"]
    /\ ret' = [ret EXCEPT ![t] = Error]
    /\ ClearLocals(t)

\* a value is to be returned: the try block is left for the finally block
ReturnValue(t, v) ==
    /\ pc' = [pc EXCEPT ![t] = "release"]
    /\ ret' = [ret EXCEPT ![t] = v]
    /\ ClearLocals(t)

\* ids still to be handed out to the create_bulk calls under way
RECURSIVE Reserved(_)
Reserved(ts) ==
    IF ts = {} THEN 0
    ELSE LET t == CHOOSE x \in ts : TRUE
         IN  Len(todo[t]) + Reserved(ts \ {t})

\* ---- create_bulk

\* a create_bulk without the "if records:" test: records[0] of an empty
\* list raises IndexError
CreateBulkUnguarded(t, records) ==
    /\ pc[t] = "idle"
    /\ work.seq + Reserved(Threads) + Len(records) <= MaxId
    /\ EngineGet(t)
    /\ IF records # <<>>
         THEN /\ pc' = [pc EXCEPT ![t] = "cb_table"]
              /\ todo' = [todo EXCEPT ![t] = records]
              /\ UNCHANGED <<ret, query, inb, inserted_ids, arg>>
         ELSE Raise(t)
    /\ UNCHANGED <<pool_vars, comp_vars, max_connections, _query_cache, eng_closed, close_i,
                   db, writer, work, stale>>

CreateBulkCall(t, records) ==
    /\ pc[t] = "idle"
    /\ work.seq + Reserved(Threads) + Len(records) <= MaxId
    /\ EngineGet(t)
    /\ IF records # <<>>
         THEN /\ pc' = [pc EXCEPT ![t] = "cb_table"]
              /\ todo' = [todo EXCEPT ![t] = records]
              /\ UNCHANGED <<ret, query, inb, inserted_ids, arg>>
         ELSE ReturnValue(t, Ids(<<>>))
    /\ UNCHANGED <<pool_vars, comp_vars, max_connections, _query_cache, eng_closed, close_i,
                   db, writer, work, stale>>

\* _create_table_from_record: CREATE TABLE IF NOT EXISTS, then conn.commit(),
\* which commits whatever transaction the connection has open
CreateTableFromRecord(t) ==
    /\ pc[t] = "cb_table"
    /\ LET c == conn[t]
           v == View(c)
           made == IF v.schema = 0 THEN [v EXCEPT !.schema = Len(Head(todo[t]))] ELSE v
       IN  IF c \in eng_closed \/ (v.schema = 0 /\ Locked(c))
             THEN Raise(t) /\ UNCHANGED <<db, writer, work>>
             ELSE /\ IF Locked(c)
                       THEN UNCHANGED <<db, writer, work>>
                       ELSE db' = made /\ work' = made /\ writer' = NoConn
                  /\ pc' = [pc EXCEPT ![t] = "cb_insert"]
                  /\ UNCHANGED <<ret, locals>>
    /\ UNCHANGED <<pool_vars, comp_vars, _connections_pool, max_connections, _query_cache,
                   eng_created, eng_closed, conn, close_i, stale>>

\* one batch for the whole list: the batch is over with the last record
BatchEndsWithList(n, rest) == rest = <<>>

\* the batch is over after _batch_size records or with the last record
BatchEnds(n, rest) == n = _batch_size \/ rest = <<>>

\* cursor.execute(query, tuple(record.values())) and the append of lastrowid;
\* query is built from batch[0] when the batch starts
InsertRecord(t) ==
    /\ pc[t] = "cb_insert"
    /\ LET c == conn[t]
           v == View(c)
           rec == Head(todo[t])
           q == IF inb[t] = 0 THEN Len(rec) ELSE query[t]
       IN  IF \/ c \in eng_closed
              \/ Locked(c)
              \/ q > v.schema        \* no such column
              \/ Len(rec) # q        \* incorrect number of bindings
             THEN /\ Raise(t)
                  /\ UNCHANGED <<writer, work>>
             ELSE /\ work' = InsertRow(v, rec)
                  /\ writer' = c
                  /\ inserted_ids' = [inserted_ids EXCEPT ![t] = Append(@, LastRowId(v))]
                  /\ todo' = [todo EXCEPT ![t] = Tail(@)]
                  /\ IF BatchEnds(inb[t] + 1, Tail(todo[t]))
                       THEN /\ pc' = [pc EXCEPT ![t] = "cb_commit"]
                            /\ inb' = [inb EXCEPT ![t] = 0]
                            /\ query' = [query EXCEPT ![t] = 0]
                       ELSE /\ pc' = [pc EXCEPT ![t] = "cb_insert"]
                            /\ inb' = [inb EXCEPT ![t] = @ + 1]
                            /\ query' = [query EXCEPT ![t] = q]
                  /\ UNCHANGED <<ret, arg>>
    /\ UNCHANGED <<pool_vars, comp_vars, _connections_pool, max_connections, _query_cache,
                   eng_created, eng_closed, conn, close_i, db, stale>>

\* conn.commit(): the connection's open transaction becomes the content
CommitOn(c) ==
    IF writer = c
      THEN db' = work /\ work' = work /\ writer' = NoConn
      ELSE UNCHANGED <<db, writer, work>>

\* conn.commit() at the end of a batch; after the last batch the call
\* returns inserted_ids
CommitBatch(t) ==
    /\ pc[t] = "cb_commit"
    /\ IF conn[t] \in eng_closed
         THEN Raise(t) /\ UNCHANGED <<db, writer, work, stale>>
         ELSE /\ CommitOn(conn[t])
              /\ IF todo[t] = <<>>
                   THEN /\ ReturnValue(t, Ids(inserted_ids[t]))
                        /\ stale' = stale \cup DOMAIN _query_cache
                   ELSE /\ pc' = [pc EXCEPT ![t] = "cb_insert"]
                        /\ UNCHANGED <<ret, locals, stale>>
    /\ UNCHANGED <<pool_vars, comp_vars, _connections_pool, max_connections, _query_cache,
                   eng_created, eng_closed, conn, close_i>>

\* ---- read_optimized

ReadCall(t) ==
    /\ pc[t] = "idle"
    /\ EngineGet(t)
    /\ pc' = [pc EXCEPT ![t] = "rd_exec"]
    /\ UNCHANGED <<pool_vars, comp_vars, locals, max_connections, _query_cache, eng_closed,
                   close_i, ret, db, writer, work, stale>>

\* what read_optimized returns for the fetched rows: "return results" sits
\* inside the row loop, so the loop ends with its first row; with no row
\* the function falls off its end
ReadResult(rows) == IF rows = <<>> THEN NoneValue ELSE Rows(<<rows[1]>>)

\* cursor.execute(query) and the row loop
ReadExecute(t) ==
    /\ pc[t] = "rd_exec"
    /\ LET c == conn[t]
       IN  IF c \in eng_closed \/ View(c).schema = 0      \* no such table
             THEN Raise(t)
             ELSE ReturnValue(t, ReadResult(SelectAll(View(c))))
    /\ UNCHANGED <<pool_vars, comp_vars, _connections_pool, max_connections, _query_cache,
                   eng_created, eng_closed, conn, close_i, db, writer, work, stale>>

\* ---- update_transactional and delete_cascade

\* the value update_transactional is called with: updates = {"name": "z"}
NewName == "z"

UpdateCall(t, k) ==
    /\ pc[t] = "idle"
    /\ EngineGet(t)
    /\ arg' = [arg EXCEPT ![t] = k]
    /\ pc' = [pc EXCEPT ![t] = "up_exec"]
    /\ UNCHANGED <<pool_vars, comp_vars, max_connections, _query_cache, eng_closed, todo,
                   query, inb, inserted_ids, close_i, ret, db, writer, work, stale>>

\* a data-changing statement fails on a closed connection, a missing table
\* or a database locked by another connection
WriteFails(c) == c \in eng_closed \/ View(c).schema = 0 \/ Locked(c)

\* cursor.execute(UPDATE ...) and rows_updated = cursor.rowcount
UpdateExecute(t) ==
    /\ pc[t] = "up_exec"
    /\ LET c == conn[t]
           v == View(c)
       IN  IF WriteFails(c)
             THEN Raise(t) /\ UNCHANGED <<writer, work>>
             ELSE /\ work' = UpdateRows(v, arg[t], NewName)
                  /\ writer' = c
                  /\ ret' = [ret EXCEPT ![t] = Count(Cardinality(Matching(v, arg[t])))]
                  /\ pc' = [pc EXCEPT ![t] = "up_commit"]
                  /\ UNCHANGED locals
    /\ UNCHANGED <<pool_vars, comp_vars, _connections_pool, max_connections, _query_cache,
                   eng_created, eng_closed, conn, close_i, db, stale>>

\* conn.commit() of a single-statement write, then "return rows_..."
CommitWrite(t) ==
    /\ IF conn[t] \in eng_closed
         THEN Raise(t) /\ UNCHANGED <<db, writer, work, stale>>
         ELSE /\ CommitOn(conn[t])
              /\ pc' = [pc EXCEPT ![t] = "release"]
              /\ stale' = stale \cup DOMAIN _query_cache
              /\ ClearLocals(t)
              /\ UNCHANGED ret
    /\ UNCHANGED <<pool_vars, comp_vars, _connections_pool, max_connections, _query_cache,
                   eng_created, eng_closed, conn, close_i>>

UpdateCommit(t) == pc[t] = "up_commit" /\ CommitWrite(t)

DeleteCall(t, k) ==
    /\ pc[t] = "idle"
    /\ EngineGet(t)
    /\ arg' = [arg EXCEPT ![t] = k]
    /\ pc' = [pc EXCEPT ![t] = "del_exec"]
    /\ UNCHANGED <<pool_vars, comp_vars, max_connections, _query_cache, eng_closed, todo,
                   query, inb, inserted_ids, close_i, ret, db, writer, work, stale>>

\* cursor.execute(DELETE ...) and rows_deleted = cursor.rowcount
DeleteExecute(t) ==
    /\ pc[t] = "del_exec"
    /\ LET c == conn[t]
           v == View(c)
       IN  IF WriteFails(c)
             THEN Raise(t) /\ UNCHANGED <<writer, work>>
             ELSE /\ work' = DeleteRows(v, arg[t])
                  /\ writer' = c
                  /\ ret' = [ret EXCEPT ![t] = Count(Cardinality(Matching(v, arg[t])))]
                  /\ pc' = [pc EXCEPT ![t] = "del_commit"]
                  /\ UNCHANGED locals
    /\ UNCHANGED <<pool_vars, comp_vars, _connections_pool, max_connections, _query_cache,
                   eng_created, eng_closed, conn, close_i, db, stale>>

DeleteCommit(t) == pc[t] = "del_commit" /\ CommitWrite(t)

\* ---- execute_cached_read (README)

\* GERAR_HASH(Query, Params), the query having no parameters
CacheKey == SelectUsers

\* a hit returns the stored result; a miss takes a connection
CachedReadCall(t) ==
    /\ pc[t] = "idle"
    /\ IF CacheKey \in DOMAIN _query_cache
         THEN /\ ret' = [ret EXCEPT ![t] = Rows(_query_cache[CacheKey])]
              /\ pc' = [pc EXCEPT ![t] = "return"]
              /\ UNCHANGED <<_connections_pool, eng_created, conn>>
         ELSE /\ EngineGet(t)
              /\ pc' = [pc EXCEPT ![t] = "cr_exec"]
              /\ UNCHANGED ret
    /\ UNCHANGED <<pool_vars, comp_vars, locals, max_connections, _query_cache, eng_closed,
                   close_i, db, writer, work, stale>>

\* Conexao.execute(Query, Params), and the result stored under the key
CachedReadExecute(t) ==
    /\ pc[t] = "cr_exec"
    /\ LET c == conn[t]
       IN  IF c \in eng_closed \/ View(c).schema = 0
             THEN Raise(t) /\ UNCHANGED <<_query_cache, stale>>
             ELSE /\ _query_cache' = [k \in DOMAIN _query_cache \cup {CacheKey} |->
                                        IF k = CacheKey THEN SelectAll(View(c))
                                                        ELSE _query_cache[k]]
                  /\ stale' = stale \ {CacheKey}
                  /\ ReturnValue(t, Rows(SelectAll(View(c))))
    /\ UNCHANGED <<pool_vars, comp_vars, _connections_pool, max_connections, eng_created,
                   eng_closed, conn, close_i, db, writer, work>>

\* the return of a call that holds no connection
Return(t) ==
    /\ pc[t] = "return"
    /\ pc' = [pc EXCEPT ![t] = "idle"]
    /\ ret' = [ret EXCEPT ![t] = Pending]
    /\ UNCHANGED <<pool_vars, comp_vars, locals, _connections_pool, max_connections,
                   _query_cache, eng_created, eng_closed, conn, close_i, db, writer,
                   work, stale>>

\* ---- close

CloseCall(t) ==
    /\ pc[t] = "idle"
    /\ pc' = [pc EXCEPT ![t] = "closing"]
    /\ close_i' = [close_i EXCEPT ![t] = 1]
    /\ UNCHANGED <<pool_vars, comp_vars, locals, _connections_pool, max_connections,
                   _query_cache, eng_created, eng_closed, conn, ret, db, writer,
                   work, stale>>

\* one turn of "for conn in self._connections_pool: conn.close()" (the list
\* iterator goes by position), or, the iterator exhausted, the clear() that
\* drops the list's references
CloseLoop(t) ==
    /\ pc[t] = "closing"
    /\ IF close_i[t] <= Len(_connections_pool)
         THEN /\ CloseConns({_connections_pool[close_i[t]]})
              /\ close_i' = [close_i EXCEPT ![t] = @ + 1]
              /\ UNCHANGED <<_connections_pool, pc>>
         ELSE /\ CloseConns(Range(_connections_pool))
              /\ _connections_pool' = <<>>
              /\ close_i' = [close_i EXCEPT ![t] = 0]
              /\ pc' = [pc EXCEPT ![t] = "idle"]
    /\ UNCHANGED <<pool_vars, comp_vars, locals, max_connections, _query_cache, eng_created,
                   conn, ret, db, stale>>

\* ------------------------------------------------------ AdaptiveCompressor

\* Python values the compressor takes and gives: str and bytes as the
\* sequence of their characters (the strings here are ASCII, so encode and
\* decode keep the characters and change the type), int, and a raised
\* exception
Str(s) == [type |-> "str", v |-> s]
Bytes(s) == [type |-> "bytes", v |-> s]
PyInt(n) == [type |-> "int", v |-> n]
Raised(name) == [type |-> "error", v |-> name]
NoCall == [type |-> "none", v |-> <<>>]

\* == on two Python values
Same(a, b) == a.type = b.type /\ a.v = b.v

\* the strings given to compress and train: a plain one, one that is JSON
\* text, one that reads as a dictionary reference, one that starts with the
\* marker without being a reference
Strs == {<<"a">>, <<"1">>, <<"@", "0">>, <<"@", "a">>}

Digits == {"0", "1"}
DigitValue(c) == IF c = "0" THEN 0 ELSE 1
IsDigits(s) == s # <<>> /\ \A i \in DOMAIN s : s[i] \in Digits

\* int(text) of a text of digits
RECURSIVE IntOf(_)
IntOf(s) ==
    IF s = <<>> THEN 0
    ELSE IntOf(SubSeq(s, 1, Len(s) - 1)) * 10 + DigitValue(s[Len(s)])

\* json.dumps of a str: the text in double quotes (nothing to escape here)
Quote == "\""
JsonDumps(s) == <<Quote>> \o s \o <<Quote>>

\* the texts json.loads takes: a number (no leading zero) or a quoted string
IsJsonNumber(s) == IsDigits(s) /\ (Len(s) = 1 \/ s[1] # "0")
IsJsonString(s) ==
    /\ Len(s) >= 2
    /\ s[1] = Quote
    /\ s[Len(s)] = Quote
    /\ \A i \in 2..(Len(s) - 1) : s[i] # Quote
JsonLoads(s) ==
    IF IsJsonNumber(s) THEN PyInt(IntOf(s))
    ELSE IF IsJsonString(s) THEN Str(SubSeq(s, 2, Len(s) - 1))
    ELSE Raised("JSONDecodeError")

\* the bytes given to decompress: the strings as they are and as JSON text
Tokens == {Bytes(s) : s \in Strs} \cup {Bytes(JsonDumps(s)) : s \in Strs}

\* the sample lists given to train_compression, each sample a record with
\* one str value
RECURSIVE SamplesUpTo(_)
SamplesUpTo(n) ==
    IF n = 0 THEN {<<>>}
    ELSE LET shorter == SamplesUpTo(n - 1)
         IN  shorter \cup {Append(x, s) : x \in {y \in shorter : Len(y) = n - 1},
                                         s \in Strs}
SampleLists == SamplesUpTo(MaxSamples)

\* __init__
CompressorInit ==
    /\ _string_dict = [s \in {} |-> NoCall]
    /\ _dict_size = 0
    /\ _enabled \in BOOLEAN
    /\ call = [op |-> "none", arg |-> NoCall]
    /\ out = NoCall
    /\ cpc = [t \in Threads |-> "idle"]
    /\ cstr = [t \in Threads |-> <<>>]
    /\ cnum = [t \in Threads |-> 0]

\* d[s] = value
Store(d, s, value) == [x \in DOMAIN d \cup {s} |-> IF x = s THEN value ELSE d[x]]

\* _compress_string returns what the dictionary holds for s; declared
\* "cdef bytes", it raises TypeError when that is the int train_compression
\* stored
CompressStringResult(d, s) ==
    IF s \in DOMAIN d
      THEN IF d[s].type = "bytes" THEN d[s] ELSE Raised("TypeError")
      ELSE Bytes(s)

\* compress(data) for a str
Compress(s) ==
    /\ call' = [op |-> "compress", arg |-> Str(s)]
    /\ IF ~_enabled
         THEN /\ out' = Bytes(JsonDumps(s))
              /\ UNCHANGED <<_string_dict, _dict_size>>
         ELSE /\ out' = CompressStringResult(_string_dict, s)
              /\ IF s \in DOMAIN _string_dict
                   THEN UNCHANGED <<_string_dict, _dict_size>>
                   ELSE /\ _string_dict' = Store(_string_dict, s, Bytes(s))
                        /\ _dict_size' = _dict_size + 1
    /\ UNCHANGED <<pool_vars, eng_vars, race_vars, _enabled>>

\* the reverse lookup of decompress: the keys whose value == idx
KeysOf(d, idx) == {k \in DOMAIN d : Same(d[k], PyInt(idx))}

\* "try: json.loads(decoded) except: decoded"
LoadsOrText(decoded) ==
    IF JsonLoads(decoded).type = "error" THEN Str(decoded) ELSE JsonLoads(decoded)

\* decompress with the compressor enabled
DecompressResult(d, decoded) ==
    IF decoded # <<>> /\ Head(decoded) = "@"
      THEN IF ~IsDigits(Tail(decoded))
             THEN Raised("ValueError")                  \* int(decoded[1:])
             ELSE IF KeysOf(d, IntOf(Tail(decoded))) # {}
               THEN Str(CHOOSE k \in KeysOf(d, IntOf(Tail(decoded))) : TRUE)
               ELSE LoadsOrText(decoded)
      ELSE LoadsOrText(decoded)

\* decompress(compressed_data)
Decompress(b) ==
    /\ call' = [op |-> "decompress", arg |-> b]
    /\ out' = IF ~_enabled THEN JsonLoads(b.v)
              ELSE DecompressResult(_string_dict, b.v)
    /\ UNCHANGED <<pool_vars, eng_vars, race_vars, _string_dict, _dict_size, _enabled>>

\* the test of train_compression on a value
TrainAddsAlways(d, s) == TRUE

TrainAdds(d, s) == s \notin DOMAIN d

\* the dictionary after the loop of train_compression over the samples
RECURSIVE Trained(_, _)
Trained(d, samples) ==
    IF samples = <<>> THEN d
    ELSE Trained(IF TrainAdds(d, Head(samples))
                   THEN Store(d, Head(samples), PyInt(Cardinality(DOMAIN d)))
                   ELSE d,
                 Tail(samples))

\* a count of every sample, new to the dictionary or not
SamplesCounted(d, samples) == Len(samples)

\* how often the loop runs "self._dict_size += 1"
RECURSIVE TrainedCount(_, _)
TrainedCount(d, samples) ==
    IF samples = <<>> THEN 0
    ELSE IF TrainAdds(d, Head(samples))
      THEN 1 + TrainedCount(Store(d, Head(samples), PyInt(Cardinality(DOMAIN d))),
                            Tail(samples))
      ELSE TrainedCount(d, Tail(samples))

\* train_compression(data_samples)
Train(samples) ==
    /\ call' = [op |-> "train", arg |-> samples]
    /\ out' = NoCall
    /\ _string_dict' = Trained(_string_dict, samples)
    /\ _dict_size' = _dict_size + TrainedCount(_string_dict, samples)
    /\ UNCHANGED <<pool_vars, eng_vars, race_vars, _enabled>>

CompressorNext ==
    \/ \E s \in Strs : Compress(s)
    \/ \E b \in Tokens \cup {x \in {out} : x.type = "bytes"} : Decompress(b)
    \/ \E samples \in SampleLists : Train(samples)

\* --------------------------------- AdaptiveCompressor, called by two threads
\* The class takes no lock. Each action below is one access to the shared
\* dictionary or counter; a thread may be overtaken between any two of them.

\* what a thread leaves behind when its call returns
Returned(t) ==
    /\ cpc' = [cpc EXCEPT ![t] = "idle"]
    /\ cstr' = [cstr EXCEPT ![t] = <<>>]
    /\ cnum' = [cnum EXCEPT ![t] = 0]

\* compress(s): "if s in self._string_dict" of _compress_string
EncodeTest(t, s) ==
    /\ cpc[t] = "idle"
    /\ _enabled
    /\ s \notin DOMAIN _string_dict
    /\ cpc' = [cpc EXCEPT ![t] = "enc_store"]
    /\ cstr' = [cstr EXCEPT ![t] = s]
    /\ UNCHANGED <<pool_vars, eng_vars, _string_dict, _dict_size, _enabled, call, out, cnum>>

\* "self._string_dict[s] = encoded_value"
EncodeStore(t) ==
    /\ cpc[t] = "enc_store"
    /\ _string_dict' = Store(_string_dict, cstr[t], Bytes(cstr[t]))
    /\ cpc' = [cpc EXCEPT ![t] = "enc_count"]
    /\ UNCHANGED <<pool_vars, eng_vars, _dict_size, _enabled, call, out, cstr, cnum>>

\* "self._dict_size += 1": the read
EncodeCount(t) ==
    /\ cpc[t] = "enc_count"
    /\ cnum' = [cnum EXCEPT ![t] = _dict_size]
    /\ cpc' = [cpc EXCEPT ![t] = "enc_write"]
    /\ UNCHANGED <<pool_vars, eng_vars, _string_dict, _dict_size, _enabled, call, out, cstr>>

\* "self._dict_size += 1": the write, and the return
EncodeCountWrite(t) ==
    /\ cpc[t] = "enc_write"
    /\ _dict_size' = cnum[t] + 1
    /\ Returned(t)
    /\ UNCHANGED <<pool_vars, eng_vars, _string_dict, _enabled, call, out>>

\* train_compression([{k: s}]): "value not in self._string_dict"
TrainTest(t, s) ==
    /\ cpc[t] = "idle"
    /\ TrainAdds(_string_dict, s)
    /\ cpc' = [cpc EXCEPT ![t] = "trn_len"]
    /\ cstr' = [cstr EXCEPT ![t] = s]
    /\ UNCHANGED <<pool_vars, eng_vars, _string_dict, _dict_size, _enabled, call, out, cnum>>

\* "len(self._string_dict)", the right-hand side of the assignment
TrainLen(t) ==
    /\ cpc[t] = "trn_len"
    /\ cnum' = [cnum EXCEPT ![t] = Cardinality(DOMAIN _string_dict)]
    /\ cpc' = [cpc EXCEPT ![t] = "trn_store"]
    /\ UNCHANGED <<pool_vars, eng_vars, _string_dict, _dict_size, _enabled, call, out, cstr>>

\* "self._string_dict[value] = ..."
TrainStore(t) ==
    /\ cpc[t] = "trn_store"
    /\ _string_dict' = Store(_string_dict, cstr[t], PyInt(cnum[t]))
    /\ cpc' = [cpc EXCEPT ![t] = "trn_count"]
    /\ UNCHANGED <<pool_vars, eng_vars, _dict_size, _enabled, call, out, cstr, cnum>>

\* "self._dict_size += 1": the read
TrainCount(t) ==
    /\ cpc[t] = "trn_count"
    /\ cnum' = [cnum EXCEPT ![t] = _dict_size]
    /\ cpc' = [cpc EXCEPT ![t] = "trn_write"]
    /\ UNCHANGED <<pool_vars, eng_vars, _string_dict, _dict_size, _enabled, call, out, cstr>>

\* "self._dict_size += 1": the write, and the return
TrainCountWrite(t) ==
    /\ cpc[t] = "trn_write"
    /\ _dict_size' = cnum[t] + 1
    /\ Returned(t)
    /\ UNCHANGED <<pool_vars, eng_vars, _string_dict, _enabled, call, out>>

RaceNext ==
    \E t \in Threads :
        \/ \E s \in Strs : EncodeTest(t, s)
        \/ EncodeStore(t)
        \/ EncodeCount(t)
        \/ EncodeCountWrite(t)
        \/ \E s \in Strs : TrainTest(t, s)
        \/ TrainLen(t)
        \/ TrainStore(t)
        \/ TrainCount(t)
        \/ TrainCountWrite(t)

\* ------------------------------------------------------------ specifications

\* every operation of the engine
EngineNext ==
    \E t \in Threads :
        \/ \E records \in RecordLists : CreateBulkCall(t, records)
        \/ CreateTableFromRecord(t)
        \/ InsertRecord(t)
        \/ CommitBatch(t)
        \/ ReadCall(t)
        \/ ReadExecute(t)
        \/ \E k \in 1..MaxId : UpdateCall(t, k)
        \/ UpdateExecute(t)
        \/ UpdateCommit(t)
        \/ \E k \in 1..MaxId : DeleteCall(t, k)
        \/ DeleteExecute(t)
        \/ DeleteCommit(t)
        \/ CachedReadCall(t)
        \/ CachedReadExecute(t)
        \/ Return(t)
        \/ CloseCall(t)
        \/ CloseLoop(t)
        \/ Release(t)

\* the four operations of the engine, called concurrently
CrudNext ==
    \E t \in Threads :
        \/ \E records \in RecordLists : CreateBulkCall(t, records)
        \/ CreateTableFromRecord(t)
        \/ InsertRecord(t)
        \/ CommitBatch(t)
        \/ ReadCall(t)
        \/ ReadExecute(t)
        \/ \E k \in 1..MaxId : UpdateCall(t, k)
        \/ UpdateExecute(t)
        \/ UpdateCommit(t)
        \/ \E k \in 1..MaxId : DeleteCall(t, k)
        \/ DeleteExecute(t)
        \/ DeleteCommit(t)
        \/ Release(t)

Init == PoolInit /\ EngineInit /\ CompressorInit

Next == PoolNext \/ EngineNext \/ CompressorNext \/ RaceNext

Spec == Init /\ [][Next]_vars

\* the pool alone, beside an engine and a compressor nobody calls
PoolOnly == Init /\ max_connections = 0 /\ _enabled
PoolSpec == PoolOnly /\ [][PoolNext]_vars

\* the pool with threads that are scheduled again and again: a thread
\* inside get_connection goes on; a caller need never release
PoolFairSpec ==
    /\ PoolOnly
    /\ [][PoolNext]_vars
    /\ \A t \in Threads : WF_vars(GetConnection(t)) /\ WF_vars(WaitLoop(t))

\* the engine alone, beside a pool and a compressor nobody calls
EngineOnly == Init /\ _max_size = 0 /\ _enabled
EngineSpec == EngineOnly /\ [][EngineNext]_vars
CrudSpec == EngineOnly /\ [][CrudNext]_vars

\* the four operations and close(), called concurrently
CloseNext ==
    \/ CrudNext
    \/ \E t \in Threads : CloseCall(t) \/ CloseLoop(t)

CloseSpec == EngineOnly /\ [][CloseNext]_vars

\* create_bulk, update_transactional and the cached read of the README,
\* called concurrently
CacheNext ==
    \E t \in Threads :
        \/ \E records \in NameRecordLists : CreateBulkCall(t, records)
        \/ CreateTableFromRecord(t)
        \/ InsertRecord(t)
        \/ CommitBatch(t)
        \/ \E k \in 1..MaxId : UpdateCall(t, k)
        \/ UpdateExecute(t)
        \/ UpdateCommit(t)
        \/ CachedReadCall(t)
        \/ CachedReadExecute(t)
        \/ Return(t)
        \/ Release(t)

CacheSpec == EngineOnly /\ [][CacheNext]_vars

\* the compressor alone, beside a pool and an engine nobody calls
CompressorOnly == Init /\ _max_size = 0 /\ max_connections = 0
CompressorSpec == CompressorOnly /\ [][CompressorNext]_vars

\* the compressor shared by the threads
RaceSpec == CompressorOnly /\ [][RaceNext]_vars

\* ------------------------------------------------- properties of the pool

\* the threads that hold a connection of the pool
CheckedOut == {t \in Threads : pool_pc[t] = "holding"}

\* C1: in every reachable state of the pool the idle connections and the
\* checked-out connections together are at most max_size.
C1_IdlePlusCheckedOutBounded ==
    Len(_connections) + Cardinality(CheckedOut) <= _max_size

\* C6: an acquire that found the pool saturated and waits eventually
\* returns to its caller, even if no connection is ever released.
C6_WaitingAcquireReturns ==
    \A t \in Threads : (pool_pc[t] = "waiting") ~> (pool_pc[t] # "waiting")

\* C7: an acquire that waits for a connection does not hold the pool's
\* mutex while it waits.
C7_WaiterHoldsNoMutex ==
    \A t \in Threads : pool_pc[t] = "waiting" => _lock # t

\* C8: once close_all has run the pool is shut down: no later acquire
\* returns or creates a connection.
C8_NoAcquireAfterCloseAll ==
    [][(\E s \in Threads : pool_pc[s] = "shut")
         => \A t \in Threads : pool_pc'[t] = "holding" => pool_pc[t] = "holding"]_vars

\* C9: release(conn) is never kept from running, and does exactly one of
\* two things: with idle_count < max_size at that moment it appends conn to
\* the idle list and closes nothing, otherwise it closes conn and leaves
\* the list as it is.
C9_ReleaseAppendsOrCloses ==
    /\ [](\A t \in Threads : pool_pc[t] = "holding" => ENABLED ReleaseConnection(t))
    /\ [][\A t \in Threads :
            (pool_pc[t] = "holding" /\ pool_pc'[t] = "idle") =>
                IF Len(_connections) < _max_size
                  THEN /\ _connections' = Append(_connections, pool_conn[t])
                       /\ pool_closed' = pool_closed
                  ELSE /\ _connections' = _connections
                       /\ pool_closed' = pool_closed \cup {pool_conn[t]}]_vars

\* C9 witness: nobody shut the pool down, the list is full, and a release
\* that found it full closed its connection
C9_Witness ==
    /\ \A t \in Threads : pool_pc[t] = "idle"
    /\ _max_size > 0
    /\ Len(_connections) = _max_size
    /\ pool_closed # {}

\* ----------------------------------------------- properties of the engine

\* the connections in the engine's idle list
IdleConns == Range(_connections_pool)

\* C2: no connection is ever in the idle list with an open (uncommitted)
\* transaction: a failed statement's transaction is rolled back before the
\* connection is released.
C2_NoIdleConnectionInTransaction ==
    \A c \in IdleConns : writer # c

\* the ids of the rows a step adds to the committed table
NewlyCommitted == {r.id : r \in db'.rows} \ {r.id : r \in db.rows}

\* C3: create_bulk is atomic per batch: rows become persistent only by the
\* commit that ends the batch which inserted them, so the rows of a batch
\* that failed partway are never persisted.
C3_RowsCommittedOnlyByTheirBatch ==
    [][NewlyCommitted # {} =>
         \E t \in Threads : /\ pc[t] = "cb_commit"
                            /\ pc'[t] # "cb_commit"
                            /\ NewlyCommitted \subseteq Range(inserted_ids[t])]_vars

\* C4: every engine operation releases its connection on every exit path:
\* the step that ends an operation puts the connection into the idle list
\* (there being room) or closes it, and a thread that is in no operation
\* holds no connection.
C4_ReleasedOnEveryExit ==
    /\ [](\A t \in Threads : pc[t] = "idle" => conn[t] = NoConn)
    /\ [][\A t \in Threads :
            (pc[t] # "idle" /\ pc'[t] = "idle") =>
                IF Len(_connections_pool) < max_connections
                  THEN _connections_pool' = Append(_connections_pool, conn[t])
                  ELSE conn[t] \in eng_closed' /\ _connections_pool' = _connections_pool]_vars

\* C4 witness: no operation is in progress, and the idle list holds a
\* connection that an operation released on its error path (the
\* transaction of its failed write is still open)
C4_Witness ==
    /\ \A t \in Threads : pc[t] = "idle" /\ conn[t] = NoConn
    /\ writer # NoConn
    /\ writer \in IdleConns

\* C5: a connection is in exactly one of the states idle, checked-out and
\* closed: no two threads hold the same connection, no connection is twice
\* in the idle list, none is both idle and held, and no thread holds a
\* closed connection.
C5_OneStatePerConnection ==
    /\ \A t, u \in Threads : (t # u /\ conn[t] # NoConn) => conn[t] # conn[u]
    /\ \A i, j \in DOMAIN _connections_pool :
           i # j => _connections_pool[i] # _connections_pool[j]
    /\ \A t \in Threads : conn[t] \notin IdleConns
    /\ \A t \in Threads : conn[t] \notin eng_closed

ReadReturns(t) == pc[t] = "rd_exec" /\ pc'[t] = "release" /\ ret'[t] # Error

\* C11: a write that has completed is visible to every read that starts
\* afterwards: the result of a read holds every row that is committed when
\* the read runs its query.
C11_ReadShowsCommittedRows ==
    [][\A t \in Threads :
           ReadReturns(t) => \A r \in db.rows : r \in Range(ret'[t].val)]_vars

\* C12: a read that misses the cache executes the query and stores the
\* result under the query's fingerprint: after it the cache holds an entry
\* for that fingerprint.
C12_ReadFillsCache ==
    [][\A t \in Threads :
           ReadReturns(t) => CacheKey \in DOMAIN _query_cache']_vars

\* C13: a read returns the full result set of its query, one record per
\* row, for any number of rows, never only a prefix.
C13_ReadReturnsAllRows ==
    [][\A t \in Threads :
           ReadReturns(t) => ret'[t] = Rows(SelectAll(View(conn[t])))]_vars

\* the places of a create_bulk call inside its try block
InCreateBulk == {"cb_table", "cb_insert", "cb_commit"}

StrictlyIncreasing(ids) == \A i, j \in DOMAIN ids : i < j => ids[i] < ids[j]

\* C14: a successful create_bulk of n records returns exactly n ids, one
\* per record in input order, strictly increasing (so pairwise distinct),
\* also across batches: the call starts with no id and all its records to
\* do, every insert moves one record from the records to do to one more
\* id, that of the row made from the record, and the call returns its ids
\* when no record is left.
C14_OneIncreasingIdPerRecord ==
    /\ [](\A t \in Threads : pc[t] \in InCreateBulk => StrictlyIncreasing(inserted_ids[t]))
    /\ [][\A t \in Threads :
            /\ (pc[t] = "idle" /\ pc'[t] \in InCreateBulk) => inserted_ids'[t] = <<>>
            /\ (pc[t] \in InCreateBulk /\ pc'[t] \in InCreateBulk) =>
                   \/ UNCHANGED <<todo[t], inserted_ids[t]>>
                   \/ /\ todo[t] # <<>>
                      /\ todo'[t] = Tail(todo[t])
                      /\ \E i \in 1..MaxId :
                            /\ inserted_ids'[t] = Append(inserted_ids[t], i)
                            /\ [id |-> i, vals |-> Head(todo[t])] \in work'.rows
            /\ (pc[t] \in InCreateBulk /\ pc'[t] = "release" /\ ret'[t] # Error) =>
                   /\ todo[t] = <<>>
                   /\ ret'[t] = Ids(inserted_ids[t])]_vars

\* C14 witness: a call returns three ids, inserted in more than one batch
C14_Witness ==
    \E t \in Threads :
        /\ pc[t] = "release"
        /\ ret[t].kind = "ids"
        /\ Len(ret[t].val) = MaxRecords
        /\ MaxRecords > _batch_size

\* C19: a successful update_transactional returns the number of rows that
\* matched, and its commit changes the table in exactly those rows' new
\* column value: every other row and column is as it was.
C19_UpdateChangesMatchingRowsOnly ==
    [][\A t \in Threads :
           (pc[t] = "up_commit" /\ pc'[t] = "release" /\ ret'[t] # Error) =>
               /\ ret'[t] = Count(Cardinality(Matching(db, arg[t])))
               /\ db' = UpdateRows(db, arg[t], NewName)]_vars

\* C20: a successful delete_cascade returns the number of rows that
\* matched, and its commit removes exactly those rows: every other row is
\* as it was and the row count drops by the number returned.
C20_DeleteRemovesMatchingRowsOnly ==
    [][\A t \in Threads :
           (pc[t] = "del_commit" /\ pc'[t] = "release" /\ ret'[t] # Error) =>
               /\ ret'[t] = Count(Cardinality(Matching(db, arg[t])))
               /\ db' = DeleteRows(db, arg[t])
               /\ Cardinality(db'.rows) = Cardinality(db.rows) - ret'[t].val]_vars

\* ------------------------------------------- properties of the compressor

\* C15: decompress(compress(s)) = s for every string s after any earlier
\* calls, and compress returns the same token for the same s again: every
\* compress returns a token, a decompress of the token just returned gives
\* the string back, and a compress of the string just compressed gives the
\* same token.
C15_RoundTrip ==
    [][/\ call'.op = "compress" => out'.type = "bytes"
       /\ (call.op = "compress" /\ call'.op = "decompress" /\ Same(call'.arg, out))
              => Same(out', call.arg)
       /\ (call.op = "compress" /\ call'.op = "compress" /\ Same(call'.arg, call.arg))
              => Same(out', out)]_vars

\* a text that starts with the marker and names no entry of dictionary d
MarkedUnknown(d, text) ==
    /\ text # <<>>
    /\ Head(text) = "@"
    /\ ~IsDigits(Tail(text)) \/ KeysOf(d, IntOf(Tail(text))) = {}

\* C16: decoding a token that starts with the marker and whose identifier
\* is not in the dictionary fails: it returns no value.
C16_UnknownEntryFails ==
    [][(call'.op = "decompress" /\ MarkedUnknown(_string_dict, call'.arg.v))
           => out'.type = "error"]_vars

\* C17: after train(samples), the encode of a string of samples allocates
\* nothing (the dictionary and its size are unchanged) and returns a
\* dictionary-marked token.
C17_EncodeAfterTrainReuses ==
    [][(/\ _enabled
        /\ call.op = "train"
        /\ call'.op = "compress"
        /\ call'.arg.v \in Range(call.arg))
           => /\ _string_dict' = _string_dict
              /\ _dict_size' = _dict_size
              /\ out'.type = "bytes"
              /\ Head(out'.v) = "@"]_vars

\* where a string first occurs in a sample list
FirstAt(samples, s) ==
    CHOOSE i \in DOMAIN samples :
        samples[i] = s /\ \A j \in 1..(i - 1) : samples[j] # s

\* the strings a step adds to the dictionary
Added == DOMAIN _string_dict' \ DOMAIN _string_dict

IdsOfBatch(t) ==
    LET n == Len(inserted_ids[t])
        k == IF n % _batch_size = 0 THEN _batch_size ELSE n % _batch_size
    IN  {inserted_ids[t][i] : i \in (n - k + 1)..n}

\* C22: create_bulk works through its records in slices of at most
\* _batch_size, each in its own transaction: while it inserts, the records
\* of the current slice are those inserted since the last full slice and
\* are fewer than _batch_size; it commits exactly when a slice is full or
\* the list is at its end (so ceil(n / _batch_size) times for n records),
\* and a commit persists the rows of that slice and no others.
C22_OneCommitPerBatch ==
    /\ [](\A t \in Threads :
            /\ pc[t] = "cb_insert" =>
                   /\ todo[t] # <<>>
                   /\ inb[t] < _batch_size
                   /\ inb[t] = Len(inserted_ids[t]) % _batch_size
            /\ pc[t] = "cb_commit" =>
                   /\ inserted_ids[t] # <<>>
                   /\ Len(inserted_ids[t]) % _batch_size = 0 \/ todo[t] = <<>>)
    /\ [][\A t \in Threads :
            (pc[t] = "cb_commit" /\ pc'[t] # "cb_commit" /\ ret'[t] # Error)
                => NewlyCommitted = IdsOfBatch(t)]_vars

\* C22 witness: a call has committed its first full batch (the rows are in
\* the table) and has records left for the next
C22_Witness ==
    \E t \in Threads :
        /\ pc[t] = "cb_insert"
        /\ Len(inserted_ids[t]) = _batch_size
        /\ todo[t] # <<>>
        /\ \A i \in Range(inserted_ids[t]) : \E r \in db.rows : r.id = i

\* C23: in every reachable state the pool holds at most max_size idle
\* connections, whatever number has been created and handed out.
C23_IdleAtMostMaxSize ==
    Len(_connections) <= _max_size

\* C23 witness: more connections were created than max_size, the idle list
\* is full and a release closed the connection it could not store
C23_Witness ==
    /\ pool_created > _max_size
    /\ _max_size > 0
    /\ Len(_connections) = _max_size
    /\ pool_closed # {}
    /\ \A t \in Threads : pool_pc[t] # "shut"

\* C24: after any sequence of compress and train_compression calls
\* _dict_size is the number of entries of the dictionary.
C24_SizeCountsEntries ==
    _dict_size = Cardinality(DOMAIN _string_dict)

\* C24 witness: a compress has just added an entry to a dictionary that a
\* train had given entries before
C24_Witness ==
    /\ call.op = "compress"
    /\ out.type = "bytes"
    /\ _dict_size >= 3
    /\ \E s \in DOMAIN _string_dict : _string_dict[s].type = "int"

\* C25: create_bulk with an empty record list returns an empty id list,
\* leaves the store as it is (no table, no row, no commit) and releases
\* the connection it took.
C25_EmptyCreateBulk ==
    [][\A t \in Threads :
           /\ (pc[t] = "idle" /\ pc'[t] = "release") =>
                  /\ ret'[t] = Ids(<<>>)
                  /\ conn'[t] # NoConn
                  /\ UNCHANGED <<db, work, writer>>
           /\ (pc[t] = "release" /\ ret[t] = Ids(<<>>) /\ pc'[t] = "idle") =>
                  /\ db' = db
                  /\ conn[t] \in Range(_connections_pool') \/ conn[t] \in eng_closed']_vars

\* C25 witness: a call with an empty list is about to release its
\* connection, and there is no table
C25_Witness ==
    \E t \in Threads :
        /\ pc[t] = "release"
        /\ ret[t] = Ids(<<>>)
        /\ conn[t] # NoConn
        /\ db.schema = 0

\* the threads that are not inside an insertion: what they read next is
\* what the object holds now
Observers == {t \in Threads : cpc[t] = "idle"}

\* C21: with encode and train calls running concurrently an insertion is
\* atomic: a caller never finds an entry in the dictionary that the size
\* counter does not count yet, and no two strings get the same identifier.
C21_InsertionAtomic ==
    /\ Observers # {} => Cardinality(DOMAIN _string_dict) = _dict_size
    /\ \A a, b \in DOMAIN _string_dict :
           a # b => ~Same(_string_dict[a], _string_dict[b])
====
